---------------------------- MODULE Spec2Model ----------------------------
(***************************************************************************)
(* A model of rmpv's value decoder, rmpv/src/decode/value.rs: read_value   *)
(* and its helpers read_array_data, read_map_data, read_str_data,          *)
(* read_bin_data and read_ext_body, over a reader that may answer a read   *)
(* short, with the transient Interrupted signal, or with a hard error.     *)
(*                                                                         *)
(* The recursion of read_value is kept as an explicit call stack: one      *)
(* frame per active read_array_data / read_map_data loop.  One step of     *)
(* the machine is one invocation of read_value's body (the marker read,    *)
(* the reads the marker asks for) followed by the bookkeeping of the       *)
(* loops the produced value returns into.                                  *)
(*                                                                         *)
(* Memory and call stack are unbounded here: Vec::with_capacity always     *)
(* succeeds and no nesting depth exhausts the stack.                       *)
(***************************************************************************)
EXTENDS Integers, Sequences, FiniteSets

(***************************************************************************)
(* Bounds of the model.                                                    *)
(***************************************************************************)
\* longest input enumerated exhaustively over ShortBytes
MaxLen == 3
\* most scripted reader answers (short / interrupted / failed reads)
MaxScript == 2
\* most consecutive read_value calls a caller makes on one reader
MaxCalls == 2

(***************************************************************************)
(* Bytes and machine words.  A u64 / i64 is kept as its 8 big-endian       *)
(* bytes, so that no width is lost; a usize that only counts bytes or      *)
(* elements of the input is an integer.                                    *)
(***************************************************************************)
Byte == 0..255

Rep(b, n) == [i \in 1..n |-> b]

\* uN as u64: zero extension
ZeroExtend(bs) == Rep(0, 8 - Len(bs)) \o bs

\* iN as i64: sign extension
SignExtend(bs) == Rep(IF bs[1] >= 128 THEN 255 ELSE 0, 8 - Len(bs)) \o bs

RECURSIVE BigEndian(_)
BigEndian(bs) ==
  IF bs = <<>> THEN 0 ELSE BigEndian(SubSeq(bs, 1, Len(bs) - 1)) * 256 + bs[Len(bs)]

\* `len as usize` of a u8 / u16 / u32 length.  Lengths of 2^31 and more are
\* all read as 2^31 - 1: far more than any input here holds, so the reads
\* and loops they drive end the same way.
as_usize(bs) ==
  IF Len(bs) = 4 /\ bs[1] >= 128 THEN 2147483647 ELSE BigEndian(bs)

(***************************************************************************)
(* The reader, R: Read.  data is the byte source, pos the cursor, script   *)
(* the answers the source gives to the next read calls: "intr" fails with  *)
(* ErrorKind::Interrupted, "err" fails with ErrorKind::Other, "short"      *)
(* delivers one byte only.  With the script used up a read delivers all    *)
(* the bytes asked for that are left, and 0 bytes at the end of the data.  *)
(***************************************************************************)
Faults == {"intr", "err", "short"}

MkReader(data, script) == [data |-> data, pos |-> 0, script |-> script]

Avail(rd) == Len(rd.data) - rd.pos

Min(a, b) == IF a < b THEN a ELSE b

\* Read::read(&mut buf) with buf.len() = n > 0
read(rd, n) ==
  IF rd.script # <<>> /\ Head(rd.script) = "intr"
    THEN [tag |-> "Err", kind |-> "Interrupted",
          rd |-> [rd EXCEPT !.script = Tail(@)]]
  ELSE IF rd.script # <<>> /\ Head(rd.script) = "err"
    THEN [tag |-> "Err", kind |-> "Other",
          rd |-> [rd EXCEPT !.script = Tail(@)]]
  ELSE LET k == IF rd.script # <<>> THEN Min(1, Avail(rd)) ELSE Min(n, Avail(rd))
       IN  [tag |-> "Ok",
            bytes |-> SubSeq(rd.data, rd.pos + 1, rd.pos + k),
            rd |-> [rd EXCEPT !.pos = @ + k,
                              !.script = IF @ = <<>> THEN @ ELSE Tail(@)]]

\* Read::read_exact: the loop over read, retrying Interrupted, failing with
\* UnexpectedEof on a read of 0 bytes; an empty buffer performs no read.
RECURSIVE read_exact_loop(_, _, _)
RECURSIVE read_exact_match(_, _, _)
\* `while !buf.is_empty()`: n bytes are still to be read, got are read
read_exact_loop(rd, n, got) ==
  IF n = 0 THEN [tag |-> "Ok", bytes |-> got, rd |-> rd]
  ELSE read_exact_match(read(rd, n), n, got)

\* `match self.read(buf)`, r being what the read returned
read_exact_match(r, n, got) ==
  IF r.tag = "Err"
    THEN IF r.kind = "Interrupted"
           THEN read_exact_loop(r.rd, n, got)
           ELSE [tag |-> "Err", kind |-> r.kind, rd |-> r.rd]
  ELSE IF r.bytes = <<>>
    THEN [tag |-> "Err", kind |-> "UnexpectedEof", rd |-> r.rd]
  ELSE read_exact_loop(r.rd, n - Len(r.bytes), got \o r.bytes)

read_exact(rd, n) == read_exact_loop(rd, n, <<>>)

(***************************************************************************)
(* rmp: the marker and the fixed-width readers.                            *)
(***************************************************************************)
\* Marker::from_u8
Marker_from_u8(b) ==
  IF b <= 127 THEN [m |-> "FixPos", val |-> b]
  ELSE IF b <= 143 THEN [m |-> "FixMap", len |-> b - 128]
  ELSE IF b <= 159 THEN [m |-> "FixArray", len |-> b - 144]
  ELSE IF b <= 191 THEN [m |-> "FixStr", len |-> b - 160]
  ELSE IF b >= 224 THEN [m |-> "FixNeg", val |-> b]
  ELSE [m |-> CASE b = 192 -> "Null"    [] b = 193 -> "Reserved"
               [] b = 194 -> "False"   [] b = 195 -> "True"
               [] b = 196 -> "Bin8"    [] b = 197 -> "Bin16"
               [] b = 198 -> "Bin32"   [] b = 199 -> "Ext8"
               [] b = 200 -> "Ext16"   [] b = 201 -> "Ext32"
               [] b = 202 -> "F32"     [] b = 203 -> "F64"
               [] b = 204 -> "U8"      [] b = 205 -> "U16"
               [] b = 206 -> "U32"     [] b = 207 -> "U64"
               [] b = 208 -> "I8"      [] b = 209 -> "I16"
               [] b = 210 -> "I32"     [] b = 211 -> "I64"
               [] b = 212 -> "FixExt1" [] b = 213 -> "FixExt2"
               [] b = 214 -> "FixExt4" [] b = 215 -> "FixExt8"
               [] b = 216 -> "FixExt16" [] b = 217 -> "Str8"
               [] b = 218 -> "Str16"   [] b = 219 -> "Str32"
               [] b = 220 -> "Array16" [] b = 221 -> "Array32"
               [] b = 222 -> "Map16"   [] b = 223 -> "Map32"]

\* read_marker: one byte, a failure is a MarkerReadError
read_marker_of(r) ==
  IF r.tag = "Ok"
    THEN [tag |-> "Ok", marker |-> Marker_from_u8(r.bytes[1]), rd |-> r.rd]
    ELSE [tag |-> "Err", err |-> [type |-> "MarkerReadError", kind |-> r.kind],
          rd |-> r.rd]

read_marker(rd) == read_marker_of(read_exact(rd, 1))

\* read_data_u8 .. read_data_f64: w bytes, big-endian; a failure is
\* ValueReadError::InvalidDataRead
read_data_of(r) ==
  IF r.tag = "Ok"
    THEN [tag |-> "Ok", bytes |-> r.bytes, rd |-> r.rd]
    ELSE [tag |-> "Err",
          err |-> [type |-> "ValueReadError", variant |-> "InvalidDataRead",
                   kind |-> r.kind],
          rd |-> r.rd]

read_data(rd, w) == read_data_of(read_exact(rd, w))

read_data_u8(rd) == read_data(rd, 1)
read_data_u16(rd) == read_data(rd, 2)
read_data_u32(rd) == read_data(rd, 4)
read_data_u64(rd) == read_data(rd, 8)
read_data_i8(rd) == read_data(rd, 1)
read_data_i16(rd) == read_data(rd, 2)
read_data_i32(rd) == read_data(rd, 4)
read_data_i64(rd) == read_data(rd, 8)
read_data_f32(rd) == read_data(rd, 4)
read_data_f64(rd) == read_data(rd, 8)

(***************************************************************************)
(* String::from_utf8: the validation of core::str, which reports the       *)
(* offset at which the first sequence that is not valid UTF-8 starts       *)
(* (Utf8Error::valid_up_to).  Offsets are 0-based, as in the code.         *)
(***************************************************************************)
utf8_char_width(b) ==
  IF b <= 127 THEN 1
  ELSE IF b >= 194 /\ b <= 223 THEN 2
  ELSE IF b >= 224 /\ b <= 239 THEN 3
  ELSE IF b >= 240 /\ b <= 244 THEN 4
  ELSE 0

RECURSIVE run_utf8_validation(_, _)
run_utf8_validation(v, index) ==
  IF index >= Len(v) THEN [ok |-> TRUE]
  ELSE
    LET first == v[index + 1]
        w == utf8_char_width(first)
        has(k) == index + 1 + k <= Len(v)
        nxt(k) == v[index + 1 + k]
        cont(k) == has(k) /\ nxt(k) >= 128 /\ nxt(k) <= 191
        second3 == has(1) /\
                   \/ first = 224 /\ nxt(1) >= 160 /\ nxt(1) <= 191
                   \/ first >= 225 /\ first <= 236 /\ nxt(1) >= 128 /\ nxt(1) <= 191
                   \/ first = 237 /\ nxt(1) >= 128 /\ nxt(1) <= 159
                   \/ first >= 238 /\ first <= 239 /\ nxt(1) >= 128 /\ nxt(1) <= 191
        second4 == has(1) /\
                   \/ first = 240 /\ nxt(1) >= 144 /\ nxt(1) <= 191
                   \/ first >= 241 /\ first <= 243 /\ nxt(1) >= 128 /\ nxt(1) <= 191
                   \/ first = 244 /\ nxt(1) >= 128 /\ nxt(1) <= 143
        good == CASE w = 1 -> TRUE
                  [] w = 2 -> cont(1)
                  [] w = 3 -> second3 /\ cont(2)
                  [] w = 4 -> second4 /\ cont(2) /\ cont(3)
                  [] OTHER -> FALSE
    IN  IF good THEN run_utf8_validation(v, index + w)
        ELSE [ok |-> FALSE, valid_up_to |-> index]

from_utf8(bytes) == run_utf8_validation(bytes, 0)

(***************************************************************************)
(* Value and Utf8String, as the decoder builds them.                       *)
(***************************************************************************)
Nil == [t |-> "Nil"]
Boolean(b) == [t |-> "Boolean", b |-> b]
PosInt(w) == [t |-> "Integer", sign |-> "PosInt", n |-> w]
NegInt(w) == [t |-> "Integer", sign |-> "NegInt", n |-> w]
F32(bits) == [t |-> "F32", bits |-> bits]
F64(bits) == [t |-> "F64", bits |-> bits]
String(s) == [t |-> "String", s |-> s]
Binary(bytes) == [t |-> "Binary", bytes |-> bytes]
Array(vec) == [t |-> "Array", vec |-> vec]
Map(vec) == [t |-> "Map", pairs |-> vec]
Ext(ty, bytes) == [t |-> "Ext", ty |-> ty, bytes |-> bytes]

\* Utf8String { s: Ok(String) } and Utf8String { s: Err((bytes, Utf8Error)) }
Utf8Ok(bytes) == [utf8 |-> "Ok", str |-> bytes]
Utf8Err(bytes, e) == [utf8 |-> "Err", bytes |-> bytes, valid_up_to |-> e.valid_up_to]

\* Value::from(u8 | u16 | u32 | u64), the bytes being the big-endian number
Value_from_unsigned(bs) == PosInt(ZeroExtend(bs))

\* Value::from(i8 | i16 | i32 | i64): a negative number is a NegInt, any other
\* a PosInt
Value_from_signed(bs) ==
  IF bs[1] >= 128 THEN NegInt(SignExtend(bs)) ELSE PosInt(SignExtend(bs))

\* the i8 of a byte
as_i8(b) == IF b >= 128 THEN b - 256 ELSE b

(***************************************************************************)
(* Error and its conversions.                                              *)
(***************************************************************************)
InvalidMarkerRead(kind) == [variant |-> "InvalidMarkerRead", kind |-> kind]
InvalidDataRead(kind) == [variant |-> "InvalidDataRead", kind |-> kind]

\* a faulty conversion: the failure of a marker read filed as a data error
From_MarkerReadError_as_data(err) == InvalidDataRead(err.kind)

\* impl From<MarkerReadError> for Error
From_MarkerReadError(err) == InvalidMarkerRead(err.kind)

\* impl From<ValueReadError> for Error
From_ValueReadError(err) ==
  CASE err.variant = "InvalidMarkerRead" -> InvalidMarkerRead(err.kind)
    [] err.variant = "InvalidDataRead" -> InvalidDataRead(err.kind)
    [] err.variant = "TypeMismatch" -> InvalidMarkerRead("Other")

(***************************************************************************)
(* Outcomes of a function of the decoder: a value with the reader as it    *)
(* leaves it, an Error, or the recursion into read_value that a loop of    *)
(* read_array_data / read_map_data asks for.                               *)
(***************************************************************************)
Ok(v, rd) == [tag |-> "Ok", val |-> v, rd |-> rd]
Fail(e, rd) == [tag |-> "Err", err |-> e, rd |-> rd]
Recurse(frame, rd) == [tag |-> "Call", frame |-> frame, rd |-> rd]

\* a faulty read_bin_data: the error of read_exact dropped, an empty buffer
\* returned in place of the payload that is not there
read_bin_data_of_lenient(r) ==
  IF r.tag = "Ok" THEN Ok(r.bytes, r.rd) ELSE Ok(<<>>, r.rd)

\* rd.read_exact(&mut buf[..]).map_err(Error::InvalidDataRead)?; Ok(buf)
read_bin_data_of(r) ==
  IF r.tag = "Ok" THEN Ok(r.bytes, r.rd) ELSE Fail(InvalidDataRead(r.kind), r.rd)

\* a faulty read_bin_data: one read in place of read_exact, r being what it
\* returned, so that an interruption or a short read fails the call
read_bin_data_once_of(r, len) ==
  IF r.tag = "Err" THEN Fail(InvalidDataRead(r.kind), r.rd)
  ELSE IF Len(r.bytes) < len THEN Fail(InvalidDataRead("UnexpectedEof"), r.rd)
  ELSE Ok(r.bytes, r.rd)

read_bin_data_once(rd, len) ==
  IF len = 0 THEN Ok(<<>>, rd) ELSE read_bin_data_once_of(read(rd, len), len)

\* read_bin_data: exactly len bytes
read_bin_data(rd, len) == read_bin_data_of(read_exact(rd, len))

\* a faulty read_str_data: text cut at its first invalid byte
read_str_data_match_lossy(bytes, u) ==
  IF u.ok THEN Utf8Ok(bytes) ELSE Utf8Ok(SubSeq(bytes, 1, u.valid_up_to))

\* `match String::from_utf8(..)`, u being what the validation returned:
\* invalid UTF-8 is kept, with the bytes and the error, not refused
read_str_data_match(bytes, u) ==
  IF u.ok THEN Utf8Ok(bytes) ELSE Utf8Err(bytes, u)

read_str_data_of(r) ==
  IF r.tag = "Err" THEN r
  ELSE Ok(read_str_data_match(r.val, from_utf8(r.val)), r.rd)

\* read_str_data: len bytes, validated
read_str_data(rd, len) == read_str_data_of(read_bin_data(rd, len))

\* Ok((ty, vec)), vec being what read_bin_data returned
read_ext_body_vec(ty, b) ==
  IF b.tag = "Err" THEN b ELSE Ok([ty |-> ty, vec |-> b.val], b.rd)

\* a faulty read_ext_body: the type tag taken as a u8
read_ext_body_ty_u8(t, len) ==
  IF t.tag = "Err" THEN Fail(From_ValueReadError(t.err), t.rd)
  ELSE read_ext_body_vec(t.bytes[1], read_bin_data(t.rd, len))

\* let ty = read_data_i8(rd)?; let vec = read_bin_data(rd, len)?
read_ext_body_ty(t, len) ==
  IF t.tag = "Err" THEN Fail(From_ValueReadError(t.err), t.rd)
  ELSE read_ext_body_vec(as_i8(t.bytes[1]), read_bin_data(t.rd, len))

\* read_ext_body: the type tag, then len bytes
read_ext_body(rd, len) == read_ext_body_ty(read_data_i8(rd), len)

\* a faulty read_array_data: the loop runs while len > 1, one element short
read_array_data_short(rd, len) ==
  IF len > 1
    THEN Recurse([fn |-> "read_array_data", len |-> len - 1, vec |-> <<>>, key |-> <<>>], rd)
    ELSE Ok(<<>>, rd)

\* read_array_data up to its first read_value: an empty Vec when len = 0
read_array_data(rd, len) ==
  IF len > 0
    THEN Recurse([fn |-> "read_array_data", len |-> len, vec |-> <<>>, key |-> <<>>], rd)
    ELSE Ok(<<>>, rd)

\* read_map_data up to its first read_value
read_map_data(rd, len) ==
  IF len > 0
    THEN Recurse([fn |-> "read_map_data", len |-> len, vec |-> <<>>, key |-> <<>>], rd)
    ELSE Ok(<<>>, rd)

\* a faulty read_array_data: the counter is not decremented
read_array_data_push_forever(frame, v) == [frame EXCEPT !.vec = Append(@, v)]

\* read_array_data, a read_value of its loop having returned v:
\* vec.push(v); len -= 1
read_array_data_push(frame, v) ==
  [frame EXCEPT !.vec = Append(@, v), !.len = @ - 1]

\* a faulty read_map_data: the pair pushed as (value, key)
read_map_data_push_swapped(frame, v) ==
  IF frame.key = <<>>
    THEN [frame EXCEPT !.key = <<v>>]
    ELSE [frame EXCEPT !.vec = Append(@, <<v, frame.key[1]>>),
                       !.key = <<>>, !.len = @ - 1]

\* read_map_data, a read_value of its loop having returned v: the first of a
\* pair is the key, the second the value; vec.push((key, value)); len -= 1
read_map_data_push(frame, v) ==
  IF frame.key = <<>>
    THEN [frame EXCEPT !.key = <<v>>]
    ELSE [frame EXCEPT !.vec = Append(@, <<frame.key[1], v>>),
                       !.key = <<>>, !.len = @ - 1]

\* `while len > 0` is over
LoopDone(frame) == frame.key = <<>> /\ frame.len = 0

(***************************************************************************)
(* read_value: the arms of its match, then the match.  r is the outcome    *)
(* of the read of the number or of the length the marker asks for; its     *)
(* failure leaves the function through `?` and From<ValueReadError>.       *)
(***************************************************************************)
\* Marker::FixPos(val) => Value::from(val), a u8
arm_FixPos(val) == Value_from_unsigned(<<val>>)

\* a faulty arm: the byte of a negative fixint taken as a u8
arm_FixNeg_as_u8(val) == Value_from_unsigned(<<val>>)

\* Marker::FixNeg(val) => Value::from(val), an i8
arm_FixNeg(val) == Value_from_signed(<<val>>)

\* Marker::Reserved => Value::Nil
arm_Reserved == Nil

\* Marker::U8 | U16 | U32 | U64
arm_unsigned(r) ==
  IF r.tag = "Err" THEN Fail(From_ValueReadError(r.err), r.rd)
  ELSE Ok(Value_from_unsigned(r.bytes), r.rd)

\* a faulty arm: a signed number always made a NegInt
arm_signed_as_NegInt(r) ==
  IF r.tag = "Err" THEN Fail(From_ValueReadError(r.err), r.rd)
  ELSE Ok(NegInt(SignExtend(r.bytes)), r.rd)

\* Marker::I8 | I16 | I32 | I64
arm_signed(r) ==
  IF r.tag = "Err" THEN Fail(From_ValueReadError(r.err), r.rd)
  ELSE Ok(Value_from_signed(r.bytes), r.rd)

\* Marker::F32
arm_F32(r) ==
  IF r.tag = "Err" THEN Fail(From_ValueReadError(r.err), r.rd)
  ELSE Ok(F32(r.bytes), r.rd)

\* Marker::F64
arm_F64(r) ==
  IF r.tag = "Err" THEN Fail(From_ValueReadError(r.err), r.rd)
  ELSE Ok(F64(r.bytes), r.rd)

\* Marker::FixStr(len)
arm_String(res) ==
  IF res.tag = "Err" THEN res ELSE Ok(String(res.val), res.rd)

arm_FixStr(rd, len) == arm_String(read_str_data(rd, len))

\* Marker::Str8 | Str16 | Str32
arm_Str(r) ==
  IF r.tag = "Err" THEN Fail(From_ValueReadError(r.err), r.rd)
  ELSE arm_FixStr(r.rd, as_usize(r.bytes))

\* Marker::FixArray(len)
arm_Value_Array(vec) ==
  IF vec.tag = "Ok" THEN Ok(Array(vec.val), vec.rd) ELSE vec

arm_FixArray(rd, len) == arm_Value_Array(read_array_data(rd, len))

\* Marker::Array16 | Array32
arm_Array(r) ==
  IF r.tag = "Err" THEN Fail(From_ValueReadError(r.err), r.rd)
  ELSE arm_FixArray(r.rd, as_usize(r.bytes))

\* Marker::FixMap(len)
arm_Value_Map(map) ==
  IF map.tag = "Ok" THEN Ok(Map(map.val), map.rd) ELSE map

arm_FixMap(rd, len) == arm_Value_Map(read_map_data(rd, len))

\* Marker::Map16 | Map32
arm_Map(r) ==
  IF r.tag = "Err" THEN Fail(From_ValueReadError(r.err), r.rd)
  ELSE arm_FixMap(r.rd, as_usize(r.bytes))

\* Marker::Bin8 | Bin16 | Bin32
arm_Value_Binary(vec) ==
  IF vec.tag = "Err" THEN vec ELSE Ok(Binary(vec.val), vec.rd)

arm_Bin(r) ==
  IF r.tag = "Err" THEN Fail(From_ValueReadError(r.err), r.rd)
  ELSE arm_Value_Binary(read_bin_data(r.rd, as_usize(r.bytes)))

\* Marker::FixExt1 | FixExt2 | FixExt4 | FixExt8 | FixExt16
arm_Value_Ext(b) ==
  IF b.tag = "Err" THEN b ELSE Ok(Ext(b.val.ty, b.val.vec), b.rd)

arm_FixExt(rd, len) == arm_Value_Ext(read_ext_body(rd, len))

\* Marker::Ext8 | Ext16 | Ext32
arm_Ext(r) ==
  IF r.tag = "Err" THEN Fail(From_ValueReadError(r.err), r.rd)
  ELSE arm_FixExt(r.rd, as_usize(r.bytes))

\* `match` on the marker mk, read with the reader left as r
read_value_match(mk, m, r) ==
       CASE m = "Null" -> Ok(Nil, r)
         [] m = "True" -> Ok(Boolean(TRUE), r)
         [] m = "False" -> Ok(Boolean(FALSE), r)
         [] m = "FixPos" -> Ok(arm_FixPos(mk.val), r)
         [] m = "FixNeg" -> Ok(arm_FixNeg(mk.val), r)
         [] m = "U8" -> arm_unsigned(read_data_u8(r))
         [] m = "U16" -> arm_unsigned(read_data_u16(r))
         [] m = "U32" -> arm_unsigned(read_data_u32(r))
         [] m = "U64" -> arm_unsigned(read_data_u64(r))
         [] m = "I8" -> arm_signed(read_data_i8(r))
         [] m = "I16" -> arm_signed(read_data_i16(r))
         [] m = "I32" -> arm_signed(read_data_i32(r))
         [] m = "I64" -> arm_signed(read_data_i64(r))
         [] m = "F32" -> arm_F32(read_data_f32(r))
         [] m = "F64" -> arm_F64(read_data_f64(r))
         [] m = "FixStr" -> arm_FixStr(r, mk.len)
         [] m = "Str8" -> arm_Str(read_data_u8(r))
         [] m = "Str16" -> arm_Str(read_data_u16(r))
         [] m = "Str32" -> arm_Str(read_data_u32(r))
         [] m = "FixArray" -> arm_FixArray(r, mk.len)
         [] m = "Array16" -> arm_Array(read_data_u16(r))
         [] m = "Array32" -> arm_Array(read_data_u32(r))
         [] m = "FixMap" -> arm_FixMap(r, mk.len)
         [] m = "Map16" -> arm_Map(read_data_u16(r))
         [] m = "Map32" -> arm_Map(read_data_u32(r))
         [] m = "Bin8" -> arm_Bin(read_data_u8(r))
         [] m = "Bin16" -> arm_Bin(read_data_u16(r))
         [] m = "Bin32" -> arm_Bin(read_data_u32(r))
         [] m = "FixExt1" -> arm_FixExt(r, 1)
         [] m = "FixExt2" -> arm_FixExt(r, 2)
         [] m = "FixExt4" -> arm_FixExt(r, 4)
         [] m = "FixExt8" -> arm_FixExt(r, 8)
         [] m = "FixExt16" -> arm_FixExt(r, 16)
         [] m = "Ext8" -> arm_Ext(read_data_u8(r))
         [] m = "Ext16" -> arm_Ext(read_data_u16(r))
         [] m = "Ext32" -> arm_Ext(read_data_u32(r))
         [] m = "Reserved" -> Ok(arm_Reserved, r)

\* `read_marker(rd)?`, mr being what read_marker returned
read_value_marker(mr) ==
  IF mr.tag = "Err" THEN Fail(From_MarkerReadError(mr.err), mr.rd)
  ELSE read_value_match(mr.marker, mr.marker.m, mr.rd)

\* read_value, up to its return or to the first read_value of a loop
read_value(rd) == read_value_marker(read_marker(rd))

(***************************************************************************)
(* The decoder as a machine.  A configuration holds the reader, the stack  *)
(* of active loops (innermost last) and the result of the call, with two   *)
(* records of what happened: steps, one entry per invocation of            *)
(* read_value (reader before and after its own reads, and how it left),    *)
(* and log, one entry per value an invocation returned (its nesting        *)
(* depth, the cursor where it started, where its marker and length prefix  *)
(* ended and where it ended, and the count n its marker declared).         *)
(***************************************************************************)
NoResult == [tag |-> "None"]

\* a value is returned by the invocation the entry e describes: it goes to
\* the caller, or into the loop that asked for it, which may return in turn
RECURSIVE Return(_, _, _)
Return(stack, e, log) ==
  LET logged == Append(log, e) IN
  IF stack = <<>>
    THEN [stack |-> <<>>, res |-> [tag |-> "Ok", val |-> e.val], log |-> logged]
  ELSE
    LET top == stack[Len(stack)]
        rest == SubSeq(stack, 1, Len(stack) - 1)
        f == IF top.fn = "read_array_data"
               THEN read_array_data_push(top, e.val)
               ELSE read_map_data_push(top, e.val)
    IN IF ~LoopDone(f)
         THEN [stack |-> Append(rest, f), res |-> NoResult, log |-> logged]
         ELSE Return(rest,
                     [depth |-> Len(rest), start |-> top.start, hdr |-> top.hdr,
                      end |-> e.end, n |-> top.n,
                      val |-> IF top.fn = "read_array_data"
                                THEN Array(f.vec) ELSE Map(f.vec)],
                     logged)

\* the configuration after the value of o, returned through ret
Returned(c, o, ret, st) ==
  [rd |-> o.rd, stack |-> ret.stack, res |-> ret.res, log |-> ret.log,
   steps |-> Append(c.steps, st)]

\* the configuration after an invocation of read_value with outcome o, of
\* which st is the record
StepOf(c, o, st) ==
     CASE o.tag = "Err" ->
            \* `?`: every active loop is left, the vectors are dropped
            [rd |-> o.rd, stack |-> <<>>, res |-> [tag |-> "Err", err |-> o.err],
             log |-> c.log, steps |-> Append(c.steps, st)]
       [] o.tag = "Call" ->
            [rd |-> o.rd,
             stack |-> Append(c.stack,
                              [fn |-> o.frame.fn, len |-> o.frame.len,
                               vec |-> o.frame.vec, key |-> o.frame.key,
                               start |-> c.rd.pos, hdr |-> o.rd.pos,
                               n |-> o.frame.len]),
             res |-> NoResult, log |-> c.log, steps |-> Append(c.steps, st)]
       [] o.tag = "Ok" ->
            Returned(c, o,
                     Return(c.stack,
                            [depth |-> Len(c.stack), start |-> c.rd.pos,
                             hdr |-> o.rd.pos, end |-> o.rd.pos, n |-> 0,
                             val |-> o.val],
                            c.log),
                     st)

\* the record of an invocation: cursor and script before and after, the
\* outcome, the number of loops it runs in
StepRecord(c, o) ==
  [start |-> c.rd.pos, script |-> c.rd.script, end |-> o.rd.pos,
   left |-> o.rd.script, out |-> o.tag, depth |-> Len(c.stack)]

StepAfter(c, o) == StepOf(c, o, StepRecord(c, o))

\* one invocation of read_value in configuration c
StepFn(c) == StepAfter(c, read_value(c.rd))

\* the configuration in which a caller's read_value(rd) starts
Enter(r) == [rd |-> r, stack |-> <<>>, res |-> NoResult, log |-> <<>>, steps |-> <<>>]

\* read_value(rd) run to its return
RECURSIVE Run(_)
Run(c) == IF c.res # NoResult THEN c ELSE Run(StepFn(c))

(***************************************************************************)
(* The wire format, from the encoder's side: Forms(v) is the set of the    *)
(* legal encodings of v, the smallest one and every wider one.             *)
(***************************************************************************)
\* the last k bytes of a word
Low(w, k) == SubSeq(w, Len(w) - k + 1, Len(w))

\* the word is the zero extension of its last k bytes
FitsUnsigned(w, k) == \A i \in 1..(Len(w) - k) : w[i] = 0

\* the word is the sign extension of its last k bytes
FitsSigned(w, k) == SignExtend(Low(w, k)) = w

\* a length or count as a k-byte big-endian number
RECURSIVE LenBytes(_, _)
LenBytes(n, k) == IF k = 0 THEN <<>> ELSE Append(LenBytes(n \div 256, k - 1), n % 256)

\* { a \o b : a \in A, b \in B }
Cat(A, B) == { a \o b : a \in A, b \in B }

RECURSIVE Forms(_)
RECURSIVE FormsOfAll(_)
\* the encodings of a sequence of values, one after the other
FormsOfAll(vs) ==
  IF vs = <<>> THEN { <<>> } ELSE Cat(Forms(Head(vs)), FormsOfAll(Tail(vs)))

\* key, value, key, value, ...
RECURSIVE Flatten(_)
Flatten(pairs) ==
  IF pairs = <<>> THEN <<>>
  ELSE <<Head(pairs)[1], Head(pairs)[2]>> \o Flatten(Tail(pairs))

\* marker and length prefix of a string, binary, array, map: fix is the
\* marker of the inline form (0 when there is none) holding lengths below lim
Headers(n, fix, lim, m8, m16, m32) ==
  (IF fix # 0 /\ n < lim THEN { <<fix + n>> } ELSE {})
  \cup (IF m8 # 0 /\ n < 256 THEN { <<m8>> \o LenBytes(n, 1) } ELSE {})
  \cup (IF n < 65536 THEN { <<m16>> \o LenBytes(n, 2) } ELSE {})
  \cup { <<m32>> \o LenBytes(n, 4) }

Forms(v) ==
  CASE v.t = "Nil" -> { <<192>> }
    [] v.t = "Boolean" -> { IF v.b THEN <<195>> ELSE <<194>> }
    [] v.t = "Integer" /\ v.sign = "PosInt" ->
         (IF FitsUnsigned(v.n, 1) /\ v.n[8] <= 127 THEN { <<v.n[8]>> } ELSE {})
         \cup { <<204 + i>> \o Low(v.n, 2 ^ i) :
                  i \in { j \in 0..3 : FitsUnsigned(v.n, 2 ^ j) } }
         \cup { <<208 + i>> \o Low(v.n, 2 ^ i) :
                  i \in { j \in 0..3 : FitsUnsigned(v.n, 2 ^ j)
                                        /\ Low(v.n, 2 ^ j)[1] <= 127 } }
    [] v.t = "Integer" /\ v.sign = "NegInt" ->
         (IF FitsSigned(v.n, 1) /\ v.n[8] >= 224 THEN { <<v.n[8]>> } ELSE {})
         \cup { <<208 + i>> \o Low(v.n, 2 ^ i) :
                  i \in { j \in 0..3 : FitsSigned(v.n, 2 ^ j) } }
    [] v.t = "String" ->
         LET bytes == IF v.s.utf8 = "Ok" THEN v.s.str ELSE v.s.bytes
         IN Cat(Headers(Len(bytes), 160, 32, 217, 218, 219), { bytes })
    [] v.t = "Binary" ->
         Cat(Headers(Len(v.bytes), 0, 0, 196, 197, 198), { v.bytes })
    [] v.t = "Ext" ->
         LET n == Len(v.bytes)
             fix == CASE n = 1 -> { <<212>> } [] n = 2 -> { <<213>> }
                      [] n = 4 -> { <<214>> } [] n = 8 -> { <<215>> }
                      [] n = 16 -> { <<216>> } [] OTHER -> {}
         IN Cat(fix \cup Headers(n, 0, 0, 199, 200, 201),
                { <<v.ty % 256>> \o v.bytes })
    [] v.t = "Array" ->
         Cat(Headers(Len(v.vec), 144, 16, 0, 220, 221), FormsOfAll(v.vec))
    [] v.t = "Map" ->
         Cat(Headers(Len(v.pairs), 128, 16, 0, 222, 223),
             FormsOfAll(Flatten(v.pairs)))

(***************************************************************************)
(* The inputs of the model.                                                *)
(***************************************************************************)
\* the u64 / i64 word of a small number, -32768 <= n < 2^31
ToWord(n) ==
  IF n >= 0 THEN ZeroExtend(LenBytes(n, 4)) ELSE SignExtend(LenBytes(65536 + n, 2))

UInt(n) == PosInt(ToWord(n))
SInt(n) == NegInt(ToWord(n))
Str(bytes) == String(Utf8Ok(bytes))
BadStr(bytes, off) == String([utf8 |-> "Err", bytes |-> bytes, valid_up_to |-> off])

\* values without nesting
Leaves ==
  { Nil, Boolean(TRUE), Boolean(FALSE),
    UInt(5), UInt(200), UInt(65536), PosInt(<<1, 0, 0, 0, 0, 0, 0, 0>>),
    PosInt(Rep(255, 8)),
    SInt(-1), SInt(-100), NegInt(<<128, 0, 0, 0, 0, 0, 0, 0>>),
    Str(<<>>), Str(<<65>>), Str(<<195, 169>>), Str(<<240, 144, 128, 128>>),
    BadStr(<<255>>, 0), BadStr(<<65, 195>>, 1), BadStr(<<226, 130, 255, 65>>, 0),
    BadStr(<<65, 244, 144, 128, 128>>, 1),
    Binary(<<>>), Binary(<<1, 255>>),
    Ext(1, <<2>>), Ext(-1, <<>>), Ext(5, <<1, 2, 3>>), Ext(-128, <<7, 8>>) }

\* arrays and maps, nested, with duplicate keys, with compound keys
Compounds ==
  { Array(<<>>), Array(<<Nil, UInt(5)>>), Array(<<UInt(5), Nil, UInt(5)>>),
    Array(<<Array(<<Boolean(TRUE)>>), Str(<<65>>)>>),
    Array(<<Map(<<<<UInt(1), Array(<<>>)>>>>), SInt(-1)>>),
    Map(<<>>), Map(<<<<UInt(1), Nil>>>>),
    Map(<<<<UInt(1), Boolean(TRUE)>>, <<UInt(1), Boolean(FALSE)>>>>),
    Map(<<<<Array(<<Nil>>), Map(<<<<Nil, Ext(1, <<2>>)>>>>)>>, <<Nil, UInt(5)>>>>) }

Values == Leaves \cup Compounds

NoValue == [t |-> "NoValue"]

\* the shortest encoding of v
Shortest(v) == CHOOSE f \in Forms(v) : \A g \in Forms(v) : Len(f) <= Len(g)

\* the fronts of the encodings of S, up to MaxLen + 2 bytes
Prefixes(S) == { SubSeq(f, 1, Min(k, Len(f))) : f \in S, k \in 0..MaxLen + 2 }

\* every sequence of at most n bytes of B
RECURSIVE SeqsUpTo(_, _)
SeqsUpTo(B, n) ==
  IF n = 0 THEN { <<>> }
  ELSE LET S == SeqsUpTo(B, n - 1) IN S \cup { Append(q, b) : q \in S, b \in B }

\* 0, 1, a map of one pair, an array of two, a string of one byte, -1
ShortBytes == { 0, 1, 129, 146, 161, 255 }

\* ASCII, continuation bytes, and the lead bytes of 2- and 3-byte sequences,
\* two of them with a narrowed range for the byte that follows
Utf8Bytes == { 65, 128, 160, 195, 224, 237 }

\* strings of every content over Utf8Bytes
Strings == { <<160 + Len(q)>> \o q : q \in SeqsUpTo(Utf8Bytes, MaxLen) }

\* every marker byte alone, and followed by one more byte
Markers == { <<b>> : b \in Byte } \cup { <<b, 1>> : b \in Byte }

\* two encodings one after the other
Pairs == Cat({ Shortest(v) : v \in Values }, { Shortest(v) : v \in Values })

\* arrays, maps, strings and binaries that declare more than the input
\* holds: 2^32 - 1 elements, pairs or bytes, 256 pairs, 15 elements
Overdeclared ==
  Cat({ <<221, 255, 255, 255, 255>>, <<223, 255, 255, 255, 255>>,
        <<219, 255, 255, 255, 255>>, <<198, 255, 255, 255, 255>>,
        <<222, 1, 0>>, <<159>> },
      SeqsUpTo({ 192, 1 }, MaxLen - 1))

\* inputs read under every script: short inputs of any content, truncated
\* and whole encodings, two values in a row
FaultData ==
  SeqsUpTo(ShortBytes, MaxLen)
  \cup Prefixes(UNION { Forms(v) : v \in Values })
  \cup { Shortest(v) : v \in Values }

Scripts == SeqsUpTo(Faults, MaxScript)

(***************************************************************************)
(* State.                                                                  *)
(***************************************************************************)
VARIABLES
  rd,        \* the reader the caller owns
  pc,        \* "idle": no read_value is active; "running": one is
  stack,     \* the active read_array_data / read_map_data loops
  res,       \* the result of the active or of the last read_value
  log,       \* the values its invocations returned
  steps,     \* its invocations
  call_rd,   \* the reader as it was when the caller called read_value
  results,   \* the calls the caller has made: reader before, result, cursor after
  origin     \* the value the input encodes, when it was made by encoding one

vars == <<rd, pc, stack, res, log, steps, call_rd, results, origin>>

Cfg == [rd |-> rd, stack |-> stack, res |-> res, log |-> log, steps |-> steps]

Init ==
  /\ \/ /\ origin \in Values
        /\ \E data \in Forms(origin) : rd = MkReader(data, <<>>)
     \/ /\ origin = NoValue
        /\ \E data \in FaultData, script \in Scripts : rd = MkReader(data, script)
     \/ /\ origin = NoValue
        /\ \E data \in Markers \cup Pairs \cup Strings \cup Overdeclared : rd = MkReader(data, <<>>)
  /\ pc = "idle"
  /\ stack = <<>>
  /\ res = NoResult
  /\ log = <<>>
  /\ steps = <<>>
  /\ call_rd = rd
  /\ results = <<>>

\* the caller calls read_value(&mut rd)
Call ==
  /\ pc = "idle"
  /\ Len(results) < MaxCalls
  /\ pc' = "running"
  /\ call_rd' = rd
  /\ stack' = <<>>
  /\ res' = NoResult
  /\ log' = <<>>
  /\ steps' = <<>>
  /\ UNCHANGED <<rd, results, origin>>

\* the configuration c follows the active one by an invocation of read_value
Becomes(c) ==
  /\ rd' = c.rd
  /\ stack' = c.stack
  /\ res' = c.res
  /\ log' = c.log
  /\ steps' = c.steps
  /\ pc' = IF c.res = NoResult THEN "running" ELSE "idle"
  /\ results' = IF c.res = NoResult THEN results
                ELSE Append(results, [start |-> call_rd, res |-> c.res, end |-> c.rd.pos])
  /\ UNCHANGED <<call_rd, origin>>

\* an invocation of read_value fails to read its marker
MarkerFail ==
  /\ pc = "running"
  /\ read_marker(rd).tag = "Err"
  /\ Becomes(StepFn(Cfg))

\* an invocation reads its marker and fails to read what the marker asks for
DataFail ==
  /\ pc = "running"
  /\ read_marker(rd).tag = "Ok"
  /\ read_value(rd).tag = "Err"
  /\ Becomes(StepFn(Cfg))

\* an invocation returns a value: to the caller, or into the loop it runs for
Leaf ==
  /\ pc = "running"
  /\ read_value(rd).tag = "Ok"
  /\ Becomes(StepFn(Cfg))

\* an invocation reads the marker and the count of a non-empty array or map
\* and enters the loop over its elements
Descend ==
  /\ pc = "running"
  /\ read_value(rd).tag = "Call"
  /\ Becomes(StepFn(Cfg))

Next == Call \/ MarkerFail \/ DataFail \/ Leaf \/ Descend

Spec == Init /\ [][Next]_vars

(***************************************************************************)
(* What the properties speak of.                                           *)
(***************************************************************************)
Data == rd.data

Range(q) == { q[i] : i \in DOMAIN q }

\* a read_value of the caller has returned
Done == pc = "idle" /\ res # NoResult

LastStep == steps[Len(steps)]

\* the reader as the invocation st found it
Before(st) == [data |-> Data, pos |-> st.start, script |-> st.script]

\* the invocation st got its marker byte
MarkerOk(st) == read_marker(Before(st)).tag = "Ok"

\* the value the invocation st returned
Returned_by(st) == CHOOSE e \in Range(log) : e.start = st.start /\ e.depth = st.depth

(***************************************************************************)
(* The wire format, by marker byte b: what follows the marker.             *)
(***************************************************************************)
\* bytes of the length prefix
PrefixWidth(b) ==
  CASE b \in {196, 199, 217} -> 1
    [] b \in {197, 200, 218, 220, 222} -> 2
    [] b \in {198, 201, 219, 221, 223} -> 4
    [] OTHER -> 0

\* bytes of the number of a fixed-width integer or float
ScalarWidth(b) ==
  CASE b \in {204, 208} -> 1
    [] b \in {205, 209} -> 2
    [] b \in {202, 206, 210} -> 4
    [] b \in {203, 207, 211} -> 8
    [] OTHER -> 0

IsStr(b) == b \in 160..191 \cup {217, 218, 219}
IsBin(b) == b \in {196, 197, 198}
IsExt(b) == b \in 199..201 \cup 212..216
IsArray(b) == b \in 144..159 \cup {220, 221}
IsMap(b) == b \in 128..143 \cup {222, 223}
SelfContained(b) == b <= 127 \/ b >= 224 \/ b \in 192..195

\* the length or count the marker at index p of d declares, its prefix
\* being there
Declared(d, p) ==
  IF PrefixWidth(d[p]) > 0 THEN as_usize(SubSeq(d, p + 1, p + PrefixWidth(d[p])))
  ELSE CASE d[p] \in 160..191 -> d[p] - 160
         [] d[p] \in 144..159 -> d[p] - 144
         [] d[p] \in 128..143 -> d[p] - 128
         [] d[p] = 212 -> 1 [] d[p] = 213 -> 2 [] d[p] = 214 -> 4
         [] d[p] = 215 -> 8 [] d[p] = 216 -> 16
         [] OTHER -> 0

\* bytes after the marker at p and before the payload: prefix, type tag
HeaderRest(b) == PrefixWidth(b) + (IF IsExt(b) THEN 1 ELSE 0)

\* bytes of payload the marker at p asks for (nested values apart)
Payload(d, p) ==
  IF IsStr(d[p]) \/ IsBin(d[p]) \/ IsExt(d[p]) THEN Declared(d, p) ELSE ScalarWidth(d[p])

\* d ends before the trailing bytes of the marker at p are all there
Truncated(d, p) ==
  \/ Len(d) - p < HeaderRest(d[p])
  \/ Len(d) - p - HeaderRest(d[p]) < Payload(d, p)

(***************************************************************************)
(* C1, as stated: read_value returns InvalidMarkerRead only when the read  *)
(* of the top-level marker fails; every failure after the top-level marker *)
(* was read, at any depth, is returned as InvalidDataRead.                 *)
(***************************************************************************)
C1_TopLevelMarkerOnly ==
  Done /\ res.tag = "Err" =>
    (res.err.variant = "InvalidMarkerRead" <=> read_marker(call_rd).tag = "Err")

(***************************************************************************)
(* C1, amended: read_value returns InvalidMarkerRead exactly when the read *)
(* of a marker byte fails, the top-level marker or the marker of a nested  *)
(* array element or map key or value at any depth; the failure of any      *)
(* other read, at any depth, is returned as InvalidDataRead.               *)
(***************************************************************************)
C1_MarkerErrorIffAMarkerReadFails ==
  Done /\ res.tag = "Err" =>
    /\ LastStep.out = "Err"
    /\ res.err.variant \in {"InvalidMarkerRead", "InvalidDataRead"}
    /\ res.err.variant = "InvalidMarkerRead" <=> ~MarkerOk(LastStep)

\* the marker of an element two loops deep could not be read
C1_Witness ==
  /\ Done /\ res.tag = "Err" /\ res.err.variant = "InvalidMarkerRead"
  /\ LastStep.depth = 2 /\ ~MarkerOk(LastStep)
  /\ read_marker(call_rd).tag = "Ok"

(***************************************************************************)
(* C2: an invocation, at any depth, that has read a marker whose trailing  *)
(* bytes (length prefix, number, type tag, payload) the input ends before, *)
(* makes read_value return InvalidDataRead; an Err carries no value and    *)
(* leaves no loop behind, so the siblings decoded before are dropped.      *)
(***************************************************************************)
C2_TruncationIsDataError ==
  /\ \A i \in DOMAIN steps :
       MarkerOk(steps[i]) /\ Truncated(Data, steps[i].start + 1) =>
         /\ i = Len(steps) /\ steps[i].out = "Err"
         /\ Done /\ res.tag = "Err" /\ res.err.variant = "InvalidDataRead"
  /\ res.tag = "Err" => stack = <<>> /\ DOMAIN res = {"tag", "err"}

\* the payload of an element is cut short after a sibling was decoded
C2_Witness ==
  /\ Done /\ res.tag = "Err" /\ res.err = InvalidDataRead("UnexpectedEof")
  /\ LastStep.depth >= 1 /\ log # <<>>
  /\ MarkerOk(LastStep) /\ Truncated(Data, LastStep.start + 1)
  /\ Payload(Data, LastStep.start + 1) > 1

(***************************************************************************)
(* UTF-8 as the Unicode standard tables it: the well-formed byte           *)
(* sequences of one code point, and the byte strings made of them.         *)
(***************************************************************************)
Tail80BF(b) == b >= 128 /\ b <= 191

WellFormed(q) ==
  CASE Len(q) = 1 -> q[1] <= 127
    [] Len(q) = 2 -> q[1] \in 194..223 /\ Tail80BF(q[2])
    [] Len(q) = 3 ->
         /\ \/ q[1] = 224 /\ q[2] \in 160..191
            \/ q[1] \in 225..236 /\ Tail80BF(q[2])
            \/ q[1] = 237 /\ q[2] \in 128..159
            \/ q[1] \in 238..239 /\ Tail80BF(q[2])
         /\ Tail80BF(q[3])
    [] Len(q) = 4 ->
         /\ \/ q[1] = 240 /\ q[2] \in 144..191
            \/ q[1] \in 241..243 /\ Tail80BF(q[2])
            \/ q[1] = 244 /\ q[2] \in 128..143
         /\ Tail80BF(q[3]) /\ Tail80BF(q[4])
    [] OTHER -> FALSE

RECURSIVE IsUtf8(_)
IsUtf8(q) ==
  \/ q = <<>>
  \/ \E k \in 1..Min(4, Len(q)) :
       WellFormed(SubSeq(q, 1, k)) /\ IsUtf8(SubSeq(q, k + 1, Len(q)))

\* the length of the longest front of q that is UTF-8: the offset of the
\* first byte that is not part of valid text
FirstInvalid(q) ==
  CHOOSE k \in 0..Len(q) :
    /\ IsUtf8(SubSeq(q, 1, k))
    /\ \A j \in (k + 1)..Len(q) : ~IsUtf8(SubSeq(q, 1, j))

\* the payload bytes of the string, binary or extension whose marker is at p
PayloadBytes(d, p) ==
  SubSeq(d, p + HeaderRest(d[p]) + 1, p + HeaderRest(d[p]) + Declared(d, p))

(***************************************************************************)
(* C3: an invocation that has read a string marker whose length prefix     *)
(* and payload are all in the input, the source not failing, returns a     *)
(* text value whatever the payload holds: the content when it is UTF-8,    *)
(* else all the bytes as they are with the offset of the first invalid     *)
(* byte; <<255>> gives the bytes <<255>> and the offset 0.                 *)
(***************************************************************************)
C3_StringsOfAnyContentDecode ==
  \A i \in DOMAIN steps :
    LET st == steps[i]
        p == st.start + 1
    IN MarkerOk(st) /\ IsStr(Data[p]) /\ ~Truncated(Data, p)
         /\ "err" \notin Range(st.script) =>
         /\ st.out = "Ok"
         /\ st.end = p + HeaderRest(Data[p]) + Declared(Data, p)
         /\ LET bytes == PayloadBytes(Data, p)
                val == Returned_by(st).val
            IN /\ val.t = "String"
               /\ IsUtf8(bytes) => val.s = [utf8 |-> "Ok", str |-> bytes]
               /\ ~IsUtf8(bytes) =>
                    val.s = [utf8 |-> "Err", bytes |-> bytes,
                             valid_up_to |-> FirstInvalid(bytes)]
               /\ bytes = <<255>> =>
                    val.s = [utf8 |-> "Err", bytes |-> <<255>>, valid_up_to |-> 0]

\* a string with a length prefix, whose payload breaks off inside a
\* sequence after valid text, is returned with its bytes and the offset 1
C3_Witness ==
  /\ Done /\ res.tag = "Ok" /\ res.val.t = "String"
  /\ Data[1] = 217
  /\ res.val.s = [utf8 |-> "Err", bytes |-> <<65, 195>>, valid_up_to |-> 1]

(***************************************************************************)
(* C4: the Interrupted answers of the source change nothing: read_value    *)
(* returns the result, and leaves the cursor, that it returns and leaves   *)
(* on the same source without them, and its error never has the kind       *)
(* Interrupted.                                                            *)
(***************************************************************************)
\* the script without its interruptions
RECURSIVE Uninterrupted(_)
Uninterrupted(script) ==
  IF script = <<>> THEN <<>>
  ELSE IF Head(script) = "intr" THEN Uninterrupted(Tail(script))
  ELSE <<Head(script)>> \o Uninterrupted(Tail(script))

\* the number of interruptions in the script
RECURSIVE Interruptions(_)
Interruptions(script) ==
  IF script = <<>> THEN 0
  ELSE (IF Head(script) = "intr" THEN 1 ELSE 0) + Interruptions(Tail(script))

C4_InterruptedReadsAreRetried ==
  Done =>
    LET quiet == Run(Enter([call_rd EXCEPT !.script = Uninterrupted(@)]))
    IN /\ res = quiet.res
       /\ rd.pos = quiet.rd.pos
       /\ Uninterrupted(rd.script) = quiet.rd.script
       /\ res.tag = "Err" => res.err.kind # "Interrupted"

\* the marker of a string came in a short read and the read of its payload
\* was interrupted; the string came back whole
C4_Witness ==
  /\ Done /\ res.tag = "Ok" /\ res.val.t = "String"
  /\ call_rd.script = <<"short", "intr">> /\ rd.script = <<>>
  /\ Data[call_rd.pos + 1] \in 161..191

(***************************************************************************)
(* C5: an array of count N is made of exactly N invocations of read_value  *)
(* one level down, the i-th element being the value of the i-th of them;   *)
(* a map of N pairs of exactly 2N, a key being returned, with all that is  *)
(* nested in it, before its value starts; pairs are kept in the order      *)
(* read, duplicate keys too; and with N = 0 nothing is read after the      *)
(* marker and its length prefix.                                           *)
(***************************************************************************)
\* the values returned one level below e, between its header and its end
Children(e) ==
  { c \in Range(log) : c.depth = e.depth + 1 /\ e.hdr <= c.start /\ c.end <= e.end }

\* the invocations made one level below e
Invocations(e) ==
  { i \in DOMAIN steps :
      steps[i].depth = e.depth + 1 /\ e.hdr <= steps[i].start /\ steps[i].start < e.end }

\* the i-th child of e in the order of the stream
Child(e, i) ==
  CHOOSE c \in Children(e) :
    Cardinality({ x \in Children(e) : x.start < c.start }) = i - 1

\* the place of an entry in the log: entries are logged as they return
LogIndex(e) == CHOOSE i \in DOMAIN log : log[i] = e

\* the children of e follow one another from its header to its end, each
\* returned before the next one starts
InSequence(e, k) ==
  /\ Cardinality(Children(e)) = k
  /\ Cardinality(Invocations(e)) = k
  /\ k = 0 => e.end = e.hdr
  /\ k > 0 => Child(e, 1).start = e.hdr /\ Child(e, k).end = e.end
  /\ \A i \in 1..(k - 1) :
       /\ Child(e, i).end = Child(e, i + 1).start
       /\ LogIndex(Child(e, i)) < LogIndex(Child(e, i + 1))
       /\ \A j0, j \in DOMAIN steps :
            /\ steps[j0].start < Child(e, i + 1).start
            /\ steps[j].start >= Child(e, i + 1).start
            => j0 < j

C5_ArraysAndMapsInStreamOrder ==
  \A e \in Range(log) :
    LET p == e.start + 1 IN
    /\ IsArray(Data[p]) =>
         /\ e.val.t = "Array"
         /\ e.hdr = p + PrefixWidth(Data[p])
         /\ e.n = Declared(Data, p)
         /\ Len(e.val.vec) = e.n
         /\ InSequence(e, e.n)
         /\ \A i \in 1..e.n : e.val.vec[i] = Child(e, i).val
    /\ IsMap(Data[p]) =>
         /\ e.val.t = "Map"
         /\ e.hdr = p + PrefixWidth(Data[p])
         /\ e.n = Declared(Data, p)
         /\ Len(e.val.pairs) = e.n
         /\ InSequence(e, 2 * e.n)
         /\ \A i \in 1..e.n :
              e.val.pairs[i] = <<Child(e, 2 * i - 1).val, Child(e, 2 * i).val>>

\* a map of two pairs with the same key and different values: both pairs
\* are there, in the order read
C5_Witness ==
  /\ Done /\ res.tag = "Ok" /\ res.val.t = "Map" /\ Len(res.val.pairs) = 2
  /\ res.val.pairs[1][1] = res.val.pairs[2][1]
  /\ res.val.pairs[1][2] # res.val.pairs[2][2]

(***************************************************************************)
(* C6: an invocation that has read a self-contained marker byte b returns  *)
(* with exactly that byte consumed and no other read made: nil for 0xc0,   *)
(* false for 0xc2, true for 0xc3, the unsigned b for b in 0x00..0x7f, the  *)
(* signed b - 256 for b in 0xe0..0xff, and nil for the reserved 0xc1.      *)
(***************************************************************************)
\* the value of a one-byte encoding
OneByteValue(b) ==
  CASE b <= 127 -> [t |-> "Integer", sign |-> "PosInt", n |-> ToWord(b)]
    [] b >= 224 -> [t |-> "Integer", sign |-> "NegInt", n |-> ToWord(b - 256)]
    [] b = 192 -> [t |-> "Nil"]
    [] b = 193 -> [t |-> "Nil"]
    [] b = 194 -> [t |-> "Boolean", b |-> FALSE]
    [] b = 195 -> [t |-> "Boolean", b |-> TRUE]

C6_SelfContainedMarkers ==
  \A i \in DOMAIN steps :
    LET st == steps[i]
        b == Data[st.start + 1]
    IN MarkerOk(st) /\ SelfContained(b) =>
         /\ st.out = "Ok"
         /\ st.end = st.start + 1
         /\ st.left = read_marker(Before(st)).rd.script
         /\ Returned_by(st).val = OneByteValue(b)

\* the reserved byte, with a byte after it that stays unread
C6_Witness ==
  /\ Done /\ res = [tag |-> "Ok", val |-> [t |-> "Nil"]]
  /\ Data = <<193, 1>> /\ call_rd.pos = 0 /\ rd.pos = 1

(***************************************************************************)
(* C7: an invocation that has read an extension marker and returns, has    *)
(* read the length prefix (0xc7, 0xc8, 0xc9: 1, 2, 4 bytes, big-endian;    *)
(* none for 0xd4..0xd8, of length 1, 2, 4, 8, 16), then one byte, the      *)
(* type tag as an i8, then exactly `length` bytes, the payload; it does    *)
(* return when these bytes are all in the input and the source does not    *)
(* fail.  0xd4 0x01 0x02 is type 1 with payload <<2>>; a length of 0 gives *)
(* an empty payload, after its type tag.                                   *)
(***************************************************************************)
C7_ExtensionLayout ==
  \A i \in DOMAIN steps :
    LET st == steps[i]
        p == st.start + 1
    IN MarkerOk(st) /\ IsExt(Data[p]) =>
         LET w == PrefixWidth(Data[p])
             len == IF w = 0 THEN Declared(Data, p)
                    ELSE BigEndian(SubSeq(Data, p + 1, p + w))
         IN /\ ~Truncated(Data, p) /\ "err" \notin Range(st.script) => st.out = "Ok"
            /\ st.out = "Ok" =>
                 /\ st.end = p + w + 1 + len
                 /\ Returned_by(st).val =
                      [t |-> "Ext",
                       ty |-> IF Data[p + w + 1] >= 128
                                THEN Data[p + w + 1] - 256 ELSE Data[p + w + 1],
                       bytes |-> SubSeq(Data, p + w + 2, p + w + 1 + len)]
                 /\ SubSeq(Data, p, st.end) = <<212, 1, 2>> =>
                      Returned_by(st).val = [t |-> "Ext", ty |-> 1, bytes |-> <<2>>]
            /\ st.out # "Call"

\* an extension of length 0 in a 16-bit prefix: the type tag -1 is read,
\* the payload is empty
C7_Witness ==
  /\ Done /\ res = [tag |-> "Ok", val |-> [t |-> "Ext", ty |-> -1, bytes |-> <<>>]]
  /\ SubSeq(Data, call_rd.pos + 1, rd.pos) = <<200, 0, 0, 255>>

(***************************************************************************)
(* C8: a value of the decoder's variants (floats apart), encoded in any    *)
(* of its legal forms, nested values in any of theirs, is decoded to an    *)
(* equal value, the whole encoding being consumed; a text that is not      *)
(* UTF-8 comes back with the same bytes and the same offset.               *)
(***************************************************************************)
C8_RoundTrip ==
  origin # NoValue /\ Len(results) >= 1 =>
    /\ results[1].res = [tag |-> "Ok", val |-> origin]
    /\ results[1].end = Len(Data)

\* a map with an array as a key and a map holding an extension as a value,
\* in its widest form
C8_Witness ==
  /\ Done /\ res.tag = "Ok" /\ res.val = origin
  /\ origin.t = "Map" /\ Len(origin.pairs) = 2 /\ origin.pairs[1][1].t = "Array"
  /\ Data[1] = 223 /\ Data[6] = 221

(***************************************************************************)
(* C9: a value read_value returns took exactly the bytes of its encoding   *)
(* (marker, length prefix, payload, and the encodings of its children),    *)
(* and the cursor is all that a call leaves behind: a later call returns   *)
(* what a first call returns on the rest of the input alone.               *)
(***************************************************************************)
\* the length of the encoding that starts at index p of d, and of k
\* encodings in a row; more than d holds when d ends before p
RECURSIVE EncodedLen(_, _)
RECURSIVE EncodedLenOf(_, _, _)
EncodedLen(d, p) ==
  IF p > Len(d) THEN Len(d) + 1
  ELSE
  1 + HeaderRest(d[p]) + Payload(d, p)
    + (IF IsArray(d[p]) THEN EncodedLenOf(d, p + 1 + PrefixWidth(d[p]), Declared(d, p))
       ELSE IF IsMap(d[p])
         THEN EncodedLenOf(d, p + 1 + PrefixWidth(d[p]), 2 * Declared(d, p))
       ELSE 0)

EncodedLenOf(d, p, k) ==
  IF k = 0 THEN 0
  ELSE EncodedLen(d, p) + EncodedLenOf(d, p + EncodedLen(d, p), k - 1)

\* the reader of a first call on what the reader r has not read yet
Rest(r) == MkReader(SubSeq(r.data, r.pos + 1, Len(r.data)), r.script)

C9_CursorIsTheOnlyState ==
  /\ \A e \in Range(log) : e.end - e.start = EncodedLen(Data, e.start + 1)
  /\ Done /\ res.tag = "Ok" =>
       /\ log[Len(log)].start = call_rd.pos
       /\ log[Len(log)].end = rd.pos
       /\ log[Len(log)].val = res.val
  /\ \A i \in 2..Len(results) :
       /\ results[i].start.pos = results[i - 1].end
       /\ results[i].res = Run(Enter(Rest(results[i].start))).res
       /\ results[i].end - results[i].start.pos = Run(Enter(Rest(results[i].start))).rd.pos

\* an array, then a map, read by two calls up to the end of the input
C9_Witness ==
  /\ Done /\ Len(results) = 2
  /\ results[1].res.tag = "Ok" /\ results[1].res.val.t = "Array"
  /\ Len(results[1].res.val.vec) = 2
  /\ results[2].res.tag = "Ok" /\ results[2].res.val.t = "Map"
  /\ Len(results[2].res.val.pairs) = 2
  /\ rd.pos = Len(Data)

(***************************************************************************)
(* C10: read_value returns.  Every invocation consumes a byte or fails; a  *)
(* loop counts down by one for each element or pair returned into it and   *)
(* runs only while its counter is positive; the first failure ends the     *)
(* call; so the invocations of a call are at most the bytes it consumed    *)
(* plus the one that failed, a call that has started always has a next     *)
(* step, and every step is one more invocation: the call returns a Value   *)
(* or an Error after at most as many steps as the input has bytes, plus    *)
(* one.                                                                    *)
(***************************************************************************)
C10_Bounded ==
  /\ \A i \in DOMAIN steps :
       /\ steps[i].end > steps[i].start \/ steps[i].out = "Err"
       /\ steps[i].out = "Err" => i = Len(steps) /\ Done /\ res.tag = "Err"
  /\ \A k \in DOMAIN stack :
       /\ stack[k].len >= 1
       /\ stack[k].len + Len(stack[k].vec) = stack[k].n
  /\ pc = "running" => Len(steps) <= rd.pos - call_rd.pos
  /\ Len(steps) <= (rd.pos - call_rd.pos) + 1
  /\ rd.pos <= Len(Data)
  /\ Len(stack) <= Len(steps)
  /\ pc = "running" =>
       /\ res = NoResult
       /\ \/ read_marker(rd).tag = "Err"
          \/ read_marker(rd).tag = "Ok" /\ read_value(rd).tag \in {"Ok", "Err", "Call"}
  /\ pc = "idle" => stack = <<>>
  /\ Done => res.tag \in {"Ok", "Err"}

=============================================================================
